---- MODULE Spec2Model ----
\* The cycle-detection event loop of anticycle.py (main, lines 165-356) as a
\* state machine: one action per ZMQ notification label (A, R, C/D).
EXTENDS Integers, Sequences, FiniteSets, TLC

\* ------------------------------------------------------------------ bounds
\* Number of distinct transactions the event stream and the RPCs speak about:
\* the first NumTx rows of TxTable.
NumTx == 3
\* utxo_cycled_count is unbounded in the code; events that would push a count
\* past this value are not generated.
MaxCycles == 2
\* dummy_cache_size is unbounded in the code between block tips; top-block Adds
\* that would push it past MaxDummyHalfMB * 500000 bytes are not generated.
MaxDummyHalfMB == 7
\* sys.argv[1]: the cache budget in MB (line 20).
num_MB == 2

\* ------------------------------------------------------- program constants
\* line 40
CYCLE_THRESH == 1

\* ------------------------------------------------------------ input domains
\* What an RPC helper returns when the HTTP status is not 200 (lines 67-70).
None == [none |-> TRUE]

\* The transactions of the node, as getrawtransaction(txid, 1) describes them:
\* vin is the list of outpoints (tx_input['txid'], tx_input['vout']) spent, each
\* outpoint abstracted to a number; hex_len is len(raw_tx["hex"]).
\* A txid is the index of its transaction in this table.
TxTable ==
    << [vin |-> << 1, 2 >>, hex_len |-> 2000000],
       [vin |-> << 1 >>,    hex_len |-> 1000000],
       [vin |-> << 2 >>,    hex_len |-> 1000000],
       [vin |-> << 2, 1 >>, hex_len |-> 2000000],
       [vin |-> << 3 >>,    hex_len |-> 1000000],
       [vin |-> << 2, 3 >>, hex_len |-> 2000000],
       [vin |-> << 3, 1 >>, hex_len |-> 2000000] >>

TXIDS == 1..NumTx

\* The outpoints spent by some transaction.
UTXOS == UNION { { TxTable[t].vin[i] : i \in 1..Len(TxTable[t].vin) } : t \in TXIDS }

\* Values estimatesmartfee(3)["feerate"] takes, in sat/kvB.
FeeRates == {1000, 2000}

\* lines 72-96: the results of a successful estimatesmartfee(3).
FeeEstimates == [feerate : FeeRates]

\* getmempoolentry results: fees.ancestor in sat, ancestorsize in vB.
Entries == [fees_ancestor : {150, 300}, ancestorsize : {150}]

\* --------------------------------------------------------------- helpers
EmptyMap == [x \in {} |-> x]

Range(seq) == { seq[i] : i \in 1..Len(seq) }

\* dict[k] = v
Put(f, k, v) == [x \in (DOMAIN f) \cup {k} |-> IF x = k THEN v ELSE f[x]]

\* del dict[k]
Del(f, k) == [x \in (DOMAIN f) \ {k} |-> f[x]]

\* defaultdict(int).__getitem__: reading a missing key inserts it with 0.
Touch(f, k) == IF k \in DOMAIN f THEN f ELSE Put(f, k, 0)

\* len(tx["hex"]) / 2
ByteSize(tx) == tx.hex_len \div 2

\* lines 42-70: the result of a successful getrawtransaction(txid, 1).
getrawtransaction(txid) == TxTable[txid]

\* line 222
tx_cache_max_byte_size == num_MB * 1000 * 1000

\* lines 257-258: Decimal(fees.ancestor) / ancestorsize * 1000 >= topblock rate,
\* cross-multiplied by the (positive) ancestorsize, in satoshi units.
new_top_block(entry, rate) == entry.fees_ancestor * 1000 >= rate * entry.ancestorsize

\* ------------------------------------------------------------------ state
VARIABLES
    cycled_tx_cache,          \* txid -> raw tx            (line 190)
    cycled_tx_cache_size,     \* bytes                     (line 191)
    cycled_input_set,         \* set of outpoints          (line 199)
    dummy_cache,              \* txid -> raw tx            (line 207)
    dummy_cache_size,         \* bytes                     (line 208)
    utxo_cycled_count,        \* defaultdict outpoint->int (line 213)
    utxo_cache,               \* outpoint -> txid          (line 219)
    utxos_being_doublespent,  \* outpoint -> removed txid  (line 228)
    topblock_rate_btc_kvb,    \* line 233, 350
    tx_input,                 \* whether main's local tx_input is bound (line 334)
    exc,                      \* "none", or the exception that ended the loop
    last,                     \* the event processed last and the path it took
    leftover,                 \* outpoints an Add found left in utxos_being_doublespent
    sent,                     \* outpoint -> tx the last event passed to sendrawtransaction
    moves                     \* what the last event evicted (txids) and admitted (outpoints)

vars == << cycled_tx_cache, cycled_tx_cache_size, cycled_input_set, dummy_cache,
           dummy_cache_size, utxo_cycled_count, utxo_cache, utxos_being_doublespent,
           topblock_rate_btc_kvb, tx_input, exc, last, leftover, sent, moves >>

\* An event that evicts and admits nothing.
NoMoves == [evicted |-> {}, admitted |-> {}]

\* lines 187-233
Init ==
    /\ cycled_tx_cache = EmptyMap
    /\ cycled_tx_cache_size = 0
    /\ cycled_input_set = {}
    /\ dummy_cache = EmptyMap
    /\ dummy_cache_size = 0
    /\ utxo_cycled_count = EmptyMap
    /\ utxo_cache = EmptyMap
    /\ utxos_being_doublespent = EmptyMap
    /\ topblock_rate_btc_kvb \in FeeRates
    /\ tx_input = FALSE
    /\ exc = "none"
    /\ last = [label |-> "start", path |-> "start"]
    /\ leftover = {}
    /\ sent = EmptyMap
    /\ moves = NoMoves

\* ------------------------------------------------------------ the Add loop
\* The part of the state the Add handler's loops read and write.
LoopState ==
    [ cycled_tx_cache |-> cycled_tx_cache,
      cycled_tx_cache_size |-> cycled_tx_cache_size,
      cycled_input_set |-> cycled_input_set,
      utxo_cycled_count |-> utxo_cycled_count,
      utxo_cache |-> utxo_cache,
      utxos_being_doublespent |-> utxos_being_doublespent,
      exc |-> "none",
      evicted |-> {},
      admitted |-> {} ]

\* The eviction without line 284: the evicted inputs stay in cycled_input_set.
BottomToTopKeepInputs(s, prevout) ==
    IF prevout \notin DOMAIN s.utxo_cache THEN s
    ELSE IF ~tx_input THEN [s EXCEPT !.exc = "UnboundLocalError"]
    ELSE IF s.utxo_cache[prevout] \notin DOMAIN s.cycled_tx_cache
         THEN [s EXCEPT !.exc = "KeyError"]
    ELSE LET p == s.utxo_cache[prevout]
         IN  [s EXCEPT !.cycled_tx_cache_size = @ - ByteSize(s.cycled_tx_cache[p]),
                       !.cycled_tx_cache = Del(@, p),
                       !.utxo_cache = Del(@, prevout),
                       !.evicted = @ \cup {p}]

\* lines 277-285: Bottom->Top, clear the cached transaction if any.
BottomToTop(s, prevout) ==
    IF prevout \notin DOMAIN s.utxo_cache THEN s
    ELSE IF ~tx_input THEN [s EXCEPT !.exc = "UnboundLocalError"]
    ELSE IF s.utxo_cache[prevout] \notin DOMAIN s.cycled_tx_cache
         THEN [s EXCEPT !.exc = "KeyError"]
    ELSE LET p == s.utxo_cache[prevout]
             deleted_prevouts == Range(s.cycled_tx_cache[p].vin)
         IN  [s EXCEPT !.cycled_tx_cache_size = @ - ByteSize(s.cycled_tx_cache[p]),
                       !.cycled_tx_cache = Del(@, p),
                       !.utxo_cache = Del(@, prevout),
                       !.cycled_input_set = @ \ deleted_prevouts,
                       !.evicted = @ \cup {p}]

\* line 292: the inputs the admission check and cycled_input_set use.
removed_prevouts(raw_tx, removed_tx) == Range(raw_tx.vin)

\* The admission test without the threshold of line 288.
MeetsThresholdAlways(count) == TRUE

\* line 288: utxo_cycled_count[prevout] >= CYCLE_THRESH
MeetsThreshold(count) == count >= CYCLE_THRESH

\* A lookup that takes the removed txid of some outpoint of the table.
RemovedTxidAny(ds, prevout) == ds[CHOOSE u \in DOMAIN ds : TRUE]

\* line 290: removed_txid = utxos_being_doublespent[prevout]
RemovedTxid(ds, prevout) == ds[prevout]

\* lines 288-303: Top->Top, cache the replaced tx if the entry is empty.
TopToTop(s, prevout, raw_tx, dcache) ==
    IF prevout \in DOMAIN s.utxo_cache
    THEN [s EXCEPT !.utxos_being_doublespent = Del(@, prevout)]
    ELSE LET s1 == [s EXCEPT !.utxo_cycled_count = Touch(@, prevout)]
         IN  IF ~MeetsThreshold(s1.utxo_cycled_count[prevout])
             THEN [s1 EXCEPT !.utxos_being_doublespent = Del(@, prevout)]
             ELSE LET removed_txid == RemovedTxid(s1.utxos_being_doublespent, prevout)
                  IN  IF removed_txid \notin DOMAIN dcache
                      THEN [s1 EXCEPT !.exc = "KeyError"]
                      ELSE LET removed_tx == dcache[removed_txid]
                               rp == removed_prevouts(raw_tx, removed_tx)
                               can_cache == \A p \in rp : p \notin s1.cycled_input_set
                           IN  IF can_cache
                               THEN [s1 EXCEPT
                                       !.utxo_cache = Put(@, prevout, removed_txid),
                                       !.cycled_tx_cache = Put(@, removed_txid, removed_tx),
                                       !.cycled_tx_cache_size = @ + ByteSize(removed_tx),
                                       !.cycled_input_set = @ \cup rp,
                                       !.admitted = @ \cup {prevout},
                                       !.utxos_being_doublespent = Del(@, prevout)]
                               ELSE [s1 EXCEPT !.utxos_being_doublespent = Del(@, prevout)]

\* lines 275-303: one iteration of the loop over add_tx_prevouts.
PrevoutStep(s, prevout, raw_tx, dcache) ==
    IF prevout \notin DOMAIN s.utxos_being_doublespent
    THEN BottomToTop(s, prevout)
    ELSE TopToTop(s, prevout, raw_tx, dcache)

\* lines 274-303: the loop over add_tx_prevouts, from index i on.
RECURSIVE PrevoutLoop(_, _, _, _)
PrevoutLoop(s, i, raw_tx, dcache) ==
    IF i > Len(raw_tx.vin) \/ s.exc # "none" THEN s
    ELSE PrevoutLoop(PrevoutStep(s, raw_tx.vin[i], raw_tx, dcache), i + 1, raw_tx, dcache)

\* A count that keeps only the outpoints counted now.
CountCyclesOnlyLeft(s) ==
    [u \in DOMAIN s.utxos_being_doublespent |->
        (IF u \in DOMAIN s.utxo_cycled_count THEN s.utxo_cycled_count[u] ELSE 0) + 1]

\* lines 306-311: every outpoint still in utxos_being_doublespent is counted.
CountCycles(s) ==
    [u \in (DOMAIN s.utxo_cycled_count) \cup (DOMAIN s.utxos_being_doublespent) |->
        IF u \in DOMAIN s.utxos_being_doublespent
        THEN (IF u \in DOMAIN s.utxo_cycled_count THEN s.utxo_cycled_count[u] ELSE 0) + 1
        ELSE s.utxo_cycled_count[u]]

\* lines 313-316: for each outpoint left, the cached tx whose hex is handed to
\* sendrawtransaction (the tx stands for its hex string).
Resubmitted(s) ==
    [u \in { x \in DOMAIN s.utxos_being_doublespent :
                /\ x \in DOMAIN s.utxo_cache
                /\ s.utxo_cache[x] \in DOMAIN s.cycled_tx_cache } |->
        s.cycled_tx_cache[s.utxo_cache[u]]]

\* What sendrawtransaction returns: the txid on success, None on failure
\* (lines 153-162).
SendResults == { [txid |-> TRUE], None }

\* The handling the FIXME of line 158 asks for: the cached tx of a failed
\* resubmission is deleted.
SendOutcomeDropFailed(s, sends) ==
    LET failed == { s.utxo_cache[u] : u \in { x \in DOMAIN sends : sends[x] = None } }
    IN  [s EXCEPT !.cycled_tx_cache =
                     [t \in (DOMAIN s.cycled_tx_cache) \ failed |-> s.cycled_tx_cache[t]]]

\* lines 316-319: send_ret is only logged; sends maps each outpoint for which
\* sendrawtransaction was called to what the call returned.
SendOutcome(s, sends) == s

\* ---------------------------------------------------------------- actions
\* The end of an Add that leaves the table as the loop left it.
FinalClearSkipped(ds) == ds

\* line 322: utxos_being_doublespent.clear() at the end of every Add.
FinalClear(ds) == EmptyMap

\* The Add handler without the clear at line 251.
AddNoEntryNoClear(txid) ==
    /\ leftover' = DOMAIN utxos_being_doublespent
    /\ sent' = EmptyMap
    /\ moves' = NoMoves
    /\ last' = [label |-> "A", path |-> "noentry"]
    /\ UNCHANGED << cycled_tx_cache, cycled_tx_cache_size, cycled_input_set, dummy_cache,
                    dummy_cache_size, utxo_cycled_count, utxo_cache, utxos_being_doublespent,
                    topblock_rate_btc_kvb, tx_input, exc >>

\* lines 251-252: getmempoolentry returned None.
AddNoEntry(txid) ==
    /\ utxos_being_doublespent' = EmptyMap
    /\ leftover' = DOMAIN utxos_being_doublespent
    /\ sent' = EmptyMap
    /\ moves' = NoMoves
    /\ last' = [label |-> "A", path |-> "noentry"]
    /\ UNCHANGED << cycled_tx_cache, cycled_tx_cache_size, cycled_input_set, dummy_cache,
                    dummy_cache_size, utxo_cycled_count, utxo_cache,
                    topblock_rate_btc_kvb, tx_input, exc >>

\* lines 257-259, 322: the tx is below the top-block rate.
AddBelow(txid) ==
    /\ utxos_being_doublespent' = FinalClear(utxos_being_doublespent)
    /\ leftover' = DOMAIN utxos_being_doublespent
    /\ sent' = EmptyMap
    /\ moves' = NoMoves
    /\ last' = [label |-> "A", path |-> "below"]
    /\ UNCHANGED << cycled_tx_cache, cycled_tx_cache_size, cycled_input_set, dummy_cache,
                    dummy_cache_size, utxo_cycled_count, utxo_cache,
                    topblock_rate_btc_kvb, tx_input, exc >>

\* lines 260-264: getrawtransaction returned None.
AddNoRaw(txid) ==
    /\ utxos_being_doublespent' = EmptyMap
    /\ leftover' = DOMAIN utxos_being_doublespent
    /\ sent' = EmptyMap
    /\ moves' = NoMoves
    /\ last' = [label |-> "A", path |-> "noraw"]
    /\ UNCHANGED << cycled_tx_cache, cycled_tx_cache_size, cycled_input_set, dummy_cache,
                    dummy_cache_size, utxo_cycled_count, utxo_cache,
                    topblock_rate_btc_kvb, tx_input, exc >>

\* lines 265-322 once the loop over the inputs has produced looped and the
\* resubmissions have left s.
AddTopEnd(dcache, dsize, looped, s) ==
    /\ dummy_cache' = dcache
    /\ dummy_cache_size' = dsize
    /\ cycled_tx_cache' = s.cycled_tx_cache
    /\ cycled_tx_cache_size' = s.cycled_tx_cache_size
    /\ cycled_input_set' = s.cycled_input_set
    /\ utxo_cache' = s.utxo_cache
    /\ exc' = s.exc
    /\ last' = [label |-> "A", path |-> "top"]
    /\ moves' = [evicted |-> s.evicted, admitted |-> s.admitted]
    /\ IF s.exc # "none"
       THEN /\ utxo_cycled_count' = s.utxo_cycled_count
            /\ utxos_being_doublespent' = s.utxos_being_doublespent
            /\ leftover' = {}
            /\ sent' = EmptyMap
       ELSE /\ \A u \in DOMAIN s.utxo_cycled_count : s.utxo_cycled_count[u] <= MaxCycles
            /\ utxo_cycled_count' = s.utxo_cycled_count
            /\ utxos_being_doublespent' = FinalClear(s.utxos_being_doublespent)
            /\ leftover' = DOMAIN looped.utxos_being_doublespent
            /\ sent' = Resubmitted(looped)
    /\ UNCHANGED << topblock_rate_btc_kvb, tx_input >>

\* lines 265-322: a top-block tx whose body was fetched; sends are the results
\* of the sendrawtransaction calls the event makes.
AddTopSent(txid, raw_tx, sends) ==
    LET dcache == Put(dummy_cache, txid, raw_tx)
        dsize  == dummy_cache_size + ByteSize(raw_tx)
    IN  /\ dsize <= MaxDummyHalfMB * 500000
        /\ \E looped \in {PrevoutLoop(LoopState, 1, raw_tx, dcache)} :
              \E s \in {IF looped.exc # "none" THEN looped
                        ELSE SendOutcome([looped EXCEPT !.utxo_cycled_count = CountCycles(looped)],
                                         sends)} :
                 AddTopEnd(dcache, dsize, looped, s)

\* The sendrawtransaction calls a top-block Add of raw_tx makes (lines 313-316).
SendCalls(txid, raw_tx) ==
    LET looped == PrevoutLoop(LoopState, 1, raw_tx, Put(dummy_cache, txid, raw_tx))
    IN  IF looped.exc # "none" THEN {} ELSE DOMAIN Resubmitted(looped)

\* lines 265-322 with the outcome of each sendrawtransaction call chosen.
AddTop(txid, raw_tx) ==
    \E sends \in [SendCalls(txid, raw_tx) -> SendResults] : AddTopSent(txid, raw_tx, sends)

\* lines 247-322: label "A". entry and raw are the RPC results (None on failure).
Add(txid, entry, raw) ==
    /\ exc = "none"
    /\ IF entry = None THEN AddNoEntry(txid)
       ELSE IF ~new_top_block(entry, topblock_rate_btc_kvb) THEN AddBelow(txid)
       ELSE IF raw = None THEN AddNoRaw(txid)
       ELSE AddTop(txid, raw)

\* lines 324-335: label "R".
Remove(txid) ==
    /\ exc = "none"
    /\ IF txid \in DOMAIN dummy_cache
       THEN /\ utxos_being_doublespent' =
                  [u \in (DOMAIN utxos_being_doublespent) \cup Range(dummy_cache[txid].vin) |->
                      IF u \in Range(dummy_cache[txid].vin) THEN txid
                      ELSE utxos_being_doublespent[u]]
            /\ tx_input' = (tx_input \/ Len(dummy_cache[txid].vin) > 0)
       ELSE UNCHANGED << utxos_being_doublespent, tx_input >>
    /\ last' = [label |-> "R",
                path |-> IF txid \in DOMAIN dummy_cache THEN "tracked" ELSE "ignored"]
    /\ leftover' = {}
    /\ sent' = EmptyMap
    /\ moves' = NoMoves
    /\ UNCHANGED << cycled_tx_cache, cycled_tx_cache_size, cycled_input_set, dummy_cache,
                    dummy_cache_size, utxo_cycled_count, utxo_cache,
                    topblock_rate_btc_kvb, exc >>

\* The budget test with a strict comparison on both sizes.
OverBudgetStrict ==
    \/ cycled_tx_cache_size > tx_cache_max_byte_size
    \/ dummy_cache_size > tx_cache_max_byte_size

\* line 341: the budget test of the block-tip handler.
OverBudget ==
    \/ cycled_tx_cache_size > tx_cache_max_byte_size
    \/ dummy_cache_size >= tx_cache_max_byte_size

\* lines 337-350: label "C" or "D". fee is estimatesmartfee(3): a result with a
\* feerate, or None when the RPC failed.
BlockTip(label, fee) ==
    /\ exc = "none"
    /\ IF OverBudget
       THEN /\ dummy_cache' = EmptyMap
            /\ dummy_cache_size' = 0
            /\ utxo_cache' = EmptyMap
            /\ utxo_cycled_count' = EmptyMap
            /\ utxos_being_doublespent' = EmptyMap
            /\ cycled_tx_cache' = EmptyMap
            /\ cycled_tx_cache_size' = 0
       ELSE UNCHANGED << dummy_cache, dummy_cache_size, utxo_cache, utxo_cycled_count,
                         utxos_being_doublespent, cycled_tx_cache, cycled_tx_cache_size >>
    /\ IF fee = None
       THEN /\ exc' = "TypeError"
            /\ UNCHANGED topblock_rate_btc_kvb
       ELSE /\ topblock_rate_btc_kvb' = fee.feerate
            /\ UNCHANGED exc
    /\ last' = [label |-> label,
                path |-> IF OverBudget THEN "wipe" ELSE "nowipe"]
    /\ leftover' = {}
    /\ sent' = EmptyMap
    /\ moves' = NoMoves
    /\ UNCHANGED << cycled_input_set, tx_input >>

Next ==
    \/ \E txid \in TXIDS, entry \in Entries \cup {None}, found \in BOOLEAN :
          Add(txid, entry, IF found THEN getrawtransaction(txid) ELSE None)
    \/ \E txid \in TXIDS : Remove(txid)
    \/ \E label \in {"C", "D"}, fee \in FeeEstimates \cup {None} : BlockTip(label, fee)

Spec == Init /\ [][Next]_vars

\* The event loop when every RPC call succeeds: getmempoolentry and
\* getrawtransaction return a result, estimatesmartfee returns a feerate.
NextRpcOk ==
    \/ \E txid \in TXIDS, entry \in Entries : Add(txid, entry, getrawtransaction(txid))
    \/ \E txid \in TXIDS : Remove(txid)
    \/ \E label \in {"C", "D"}, fee \in FeeEstimates : BlockTip(label, fee)

SpecRpcOk == Init /\ [][NextRpcOk]_vars

\* ------------------------------------------------------ derived quantities
\* The union of the inputs of the transactions of a cache.
InputsOf(cache) == UNION { Range(cache[t].vin) : t \in DOMAIN cache }

\* The byte sizes of the transactions of a cache, summed from scratch.
RECURSIVE SumBytes(_, _)
SumBytes(cache, keys) ==
    IF keys = {} THEN 0
    ELSE LET t == CHOOSE x \in keys : TRUE
         IN  ByteSize(cache[t]) + SumBytes(cache, keys \ {t})

\* utxo_cycled_count[u] read without inserting.
CountOf(counts, u) == IF u \in DOMAIN counts THEN counts[u] ELSE 0

\* An event has been processed to its end.
Processed == exc = "none" /\ last.label # "start"

\* ------------------------------------------------------------------ claims
\* C1: after every processed event every value of utxo_cache is a key of
\* cycled_tx_cache.
C1_UtxoCacheBacked ==
    Processed => \A u \in DOMAIN utxo_cache : utxo_cache[u] \in DOMAIN cycled_tx_cache

\* C2: after every processed event cycled_input_set is exactly the union of the
\* inputs of the transactions in cycled_tx_cache.
C2_InputSetExact ==
    Processed => cycled_input_set = InputsOf(cycled_tx_cache)

\* C3: no two distinct entries of cycled_tx_cache have overlapping inputs.
C3_ProtectedDisjoint ==
    \A p, q \in DOMAIN cycled_tx_cache :
        p # q => Range(cycled_tx_cache[p].vin) \cap Range(cycled_tx_cache[q].vin) = {}

\* C4: after every processed event cycled_tx_cache_size is the sum of the byte
\* sizes of the transactions in cycled_tx_cache.
C4_ProtectedBytesExact ==
    Processed => cycled_tx_cache_size = SumBytes(cycled_tx_cache, DOMAIN cycled_tx_cache)

\* C5: after every processed event dummy_cache_size is the sum of the byte sizes
\* of the transactions in dummy_cache.
C5_DummyBytesExact ==
    Processed => dummy_cache_size = SumBytes(dummy_cache, DOMAIN dummy_cache)

\* An Add whose getmempoolentry call returned an entry has run to its end.
AddWithEntryDone == exc = "none" /\ last.label = "A" /\ last.path # "noentry"

\* C6: after any Add event that finishes, on each of its four paths,
\* utxos_being_doublespent is empty, so no outpoint is both in it and in
\* utxo_cache.
C6_DoublespentClearedAfterAdd ==
    (exc = "none" /\ last.label = "A") =>
        /\ utxos_being_doublespent = EmptyMap
        /\ (DOMAIN utxos_being_doublespent) \cap (DOMAIN utxo_cache) = {}

\* C6 witness: a top-block Add ran to its end, found outpoints left in the table
\* that it did not spend, and resubmitted for one that utxo_cache holds.
C6_Witness ==
    /\ exc = "none"
    /\ last = [label |-> "A", path |-> "top"]
    /\ leftover # {}
    /\ sent # EmptyMap

\* C7: during an Add whose mempool entry is found, every outpoint left in
\* utxos_being_doublespent has its utxo_cycled_count incremented by exactly 1,
\* also when the Add is below the top-block rate.
C7_TopToBottomCounted ==
    [][ (exc' = "none" /\ last'.label = "A" /\ last'.path # "noentry") =>
            \A u \in leftover' :
                CountOf(utxo_cycled_count', u) = CountOf(utxo_cycled_count, u) + 1 ]_vars

\* C8: whenever an Add whose mempool entry is found leaves an outpoint u in
\* utxos_being_doublespent with utxo_cache[u] a key of cycled_tx_cache,
\* sendrawtransaction is called during that Add with that cached tx, also when
\* the Add is below the top-block rate.
C8_ResubmitOnTopToBottom ==
    AddWithEntryDone =>
        \A u \in leftover :
            (u \in DOMAIN utxo_cache /\ utxo_cache[u] \in DOMAIN cycled_tx_cache) =>
                (u \in DOMAIN sent /\ sent[u] = cycled_tx_cache[utxo_cache[u]])

\* C9: after a block-tip event processed over budget, the six containers are
\* empty and both byte counters are 0.
C9_FullWipe ==
    (exc = "none" /\ last.label \in {"C", "D"} /\ last.path = "wipe") =>
        /\ dummy_cache = EmptyMap
        /\ cycled_tx_cache = EmptyMap
        /\ utxo_cache = EmptyMap
        /\ utxo_cycled_count = EmptyMap
        /\ utxos_being_doublespent = EmptyMap
        /\ cycled_input_set = {}
        /\ dummy_cache_size = 0
        /\ cycled_tx_cache_size = 0

\* C10: when all RPC calls succeed, no event raises: every keyed lookup hits an
\* existing key and the loop never ends by an exception.
C10_NoException == exc = "none"

\* C11: an RPC helper returning None (getmempoolentry, getrawtransaction,
\* sendrawtransaction, or estimatesmartfee on a block tip) never ends the loop:
\* no event raises because of a None result.
C11_RpcFailureSurvived == exc # "TypeError"

\* The engine state: everything but the observation variables last, leftover, sent
\* and the exception marker.
engine == << cycled_tx_cache, cycled_tx_cache_size, cycled_input_set, dummy_cache,
             dummy_cache_size, utxo_cycled_count, utxo_cache, utxos_being_doublespent >>

\* C12: an Add whose getmempoolentry call returns None clears
\* utxos_being_doublespent, resubmits nothing and changes no other cache, set
\* or counter.
C12_MissingEntryFrame ==
    [][ (last'.label = "A" /\ last'.path = "noentry") =>
            /\ utxos_being_doublespent' = EmptyMap
            /\ sent' = EmptyMap
            /\ UNCHANGED << cycled_tx_cache, cycled_tx_cache_size, utxo_cache,
                            cycled_input_set, utxo_cycled_count, dummy_cache,
                            dummy_cache_size >> ]_vars

\* C12 witness: an Add without mempool entry ended while a Remove had put a
\* protected outpoint in the table (a Top->Bottom handling would have counted
\* and resubmitted it).
C12_Witness ==
    /\ last = [label |-> "A", path |-> "noentry"]
    /\ \E u \in leftover :
          u \in DOMAIN utxo_cache /\ utxo_cache[u] \in DOMAIN cycled_tx_cache

\* A top-block Add of txid has run to its end in this step.
AddTopDone(txid) ==
    /\ last' = [label |-> "A", path |-> "top"]
    /\ exc' = "none"
    /\ AddTop(txid, getrawtransaction(txid))

\* The outpoints a top-block Add of txid evicts through: spent by txid, in
\* utxo_cache with the cached tx present, and not in utxos_being_doublespent.
EvictedBy(txid) ==
    { u \in Range(getrawtransaction(txid).vin) :
        /\ u \in DOMAIN utxo_cache
        /\ u \notin DOMAIN utxos_being_doublespent
        /\ utxo_cache[u] \in DOMAIN cycled_tx_cache }

C14_BudgetAfterBlockTip ==
    [][ last'.label \in {"C", "D"} =>
          /\ cycled_tx_cache_size' <= tx_cache_max_byte_size
          /\ dummy_cache_size' < tx_cache_max_byte_size
          /\ (cycled_tx_cache_size <= tx_cache_max_byte_size
                /\ dummy_cache_size < tx_cache_max_byte_size) =>
                UNCHANGED engine ]_vars

\* A block tip that wiped caches which held transactions.
C14_Witness ==
    /\ last.label \in {"C", "D"}
    /\ last.path = "wipe"
    /\ cycled_tx_cache = EmptyMap
    /\ dummy_cache = EmptyMap
    /\ cycled_input_set # {}

\* The outpoint is put to the admission test in loop state s: it is in
\* utxos_being_doublespent, not in utxo_cache, its count meets CYCLE_THRESH and
\* the removed tx is known.
Tested(s, prevout, dcache) ==
    /\ prevout \in DOMAIN s.utxos_being_doublespent
    /\ prevout \notin DOMAIN s.utxo_cache
    /\ CountOf(s.utxo_cycled_count, prevout) >= CYCLE_THRESH
    /\ s.utxos_being_doublespent[prevout] \in DOMAIN dcache

\* From iteration i on, each tested outpoint is admitted exactly when no input
\* of the removed tx is in cycled_input_set at the time of the test.
RECURSIVE AdmitsByRemovedInputs(_, _, _, _)
AdmitsByRemovedInputs(s, i, raw_tx, dcache) ==
    IF i > Len(raw_tx.vin) \/ s.exc # "none" THEN TRUE
    ELSE LET prevout == raw_tx.vin[i]
             s1 == PrevoutStep(s, prevout, raw_tx, dcache)
         IN  /\ Tested(s, prevout, dcache) =>
                  LET R == dcache[s.utxos_being_doublespent[prevout]]
                  IN  (prevout \in s1.admitted) <=>
                          (Range(R.vin) \cap s.cycled_input_set = {})
             /\ AdmitsByRemovedInputs(s1, i + 1, raw_tx, dcache)

\* C15: a Top->Top admission succeeds exactly when no input of the removed tx
\* R = dummy_cache[r] is in cycled_input_set, so one Add that replaces two
\* removed txs with disjoint unprotected inputs admits both.
C15_AdmissionByRemovedInputs ==
    [][ \A txid \in TXIDS : AddTopDone(txid) =>
          LET raw_tx == getrawtransaction(txid)
              dcache == Put(dummy_cache, txid, raw_tx)
          IN  /\ AdmitsByRemovedInputs(LoopState, 1, raw_tx, dcache)
              /\ \A u, v \in Range(raw_tx.vin) :
                   ( /\ u # v
                     /\ Tested(LoopState, u, dcache)
                     /\ Tested(LoopState, v, dcache)
                     /\ LET Ru == dcache[utxos_being_doublespent[u]]
                            Rv == dcache[utxos_being_doublespent[v]]
                        IN  /\ Range(Ru.vin) \cap Range(Rv.vin) = {}
                            /\ (Range(Ru.vin) \cup Range(Rv.vin)) \cap cycled_input_set = {} )
                   => {u, v} \subseteq moves'.admitted ]_vars

\* The outpoints an event inserts into utxo_cache and the txids it inserts
\* into cycled_tx_cache.
InsertedUtxos ==
    moves'.admitted \cup
    { u \in DOMAIN utxo_cache' : u \notin DOMAIN utxo_cache \/ utxo_cache'[u] # utxo_cache[u] }

InsertedTxids ==
    { t \in DOMAIN cycled_tx_cache' :
        t \notin DOMAIN cycled_tx_cache \/ cycled_tx_cache'[t] # cycled_tx_cache[t] }

\* C16: a tx enters cycled_tx_cache, and an outpoint u enters utxo_cache, only
\* in a top-block Add in which u is in utxos_being_doublespent, u is not in
\* utxo_cache and utxo_cycled_count[u] >= CYCLE_THRESH; hence every outpoint
\* in utxo_cache has a count of at least CYCLE_THRESH.
C16_ThresholdGating ==
    [][ /\ \A u \in InsertedUtxos :
             /\ last' = [label |-> "A", path |-> "top"]
             /\ u \in DOMAIN utxos_being_doublespent
             /\ u \notin DOMAIN utxo_cache
             /\ CountOf(utxo_cycled_count, u) >= CYCLE_THRESH
        /\ \A t \in InsertedTxids :
             \E u \in InsertedUtxos : utxo_cache'[u] = t
        /\ \A u \in DOMAIN utxo_cache' :
             CountOf(utxo_cycled_count', u) >= CYCLE_THRESH ]_vars

\* A top-block Add that admitted a removed tx for an outpoint.
C16_Witness ==
    /\ last = [label |-> "A", path |-> "top"]
    /\ exc = "none"
    /\ \E u \in moves.admitted :
         /\ u \in DOMAIN utxo_cache
         /\ utxo_cache[u] \in DOMAIN cycled_tx_cache

\* C17: after an Add that calls sendrawtransaction the engine state is the
\* same whatever each call returned, and the resubmitted entry stays in
\* cycled_tx_cache.
C17_SendOutcomeIgnored ==
    [][ \A txid \in TXIDS :
          LET raw_tx == getrawtransaction(txid)
          IN  (sent' # EmptyMap /\ AddTop(txid, raw_tx)) =>
                /\ \A sends \in [SendCalls(txid, raw_tx) -> SendResults] :
                      AddTopSent(txid, raw_tx, sends)
                /\ \A u \in DOMAIN sent' :
                      /\ u \in DOMAIN utxo_cache'
                      /\ utxo_cache'[u] \in DOMAIN cycled_tx_cache'
                      /\ cycled_tx_cache'[utxo_cache'[u]] = sent'[u] ]_vars

\* An Add that resubmitted a cached tx.
C17_Witness ==
    /\ last = [label |-> "A", path |-> "top"]
    /\ exc = "none"
    /\ sent # EmptyMap

\* The last event was a block tip that wiped the caches.
Wiped == last.label \in {"C", "D"} /\ last.path = "wipe"

\* C18: no event but a wiping block tip lowers a count of utxo_cycled_count;
\* Remove events, evictions and admissions leave every count as it was: a
\* top-block Add raises by one the counts of the outpoints it found left in
\* utxos_being_doublespent and changes no other.
C18_CountsMonotone ==
    [][ /\ ~Wiped' =>
             \A u \in UTXOS :
                CountOf(utxo_cycled_count', u) >= CountOf(utxo_cycled_count, u)
        /\ last'.label = "R" =>
             \A u \in UTXOS :
                CountOf(utxo_cycled_count', u) = CountOf(utxo_cycled_count, u)
        /\ last' = [label |-> "A", path |-> "top"] =>
             \A u \in UTXOS :
                CountOf(utxo_cycled_count', u) =
                    CountOf(utxo_cycled_count, u) + (IF u \in leftover' THEN 1 ELSE 0) ]_vars

\* A top-block Add that evicted or admitted a tx, counted an outpoint and left
\* another outpoint's positive count alone.
C18_Witness ==
    /\ last = [label |-> "A", path |-> "top"]
    /\ exc = "none"
    /\ moves.evicted \cup moves.admitted # {}
    /\ leftover # {}
    /\ \E u \in UTXOS \ leftover : CountOf(utxo_cycled_count, u) >= 1

\* C19: for every outpoint u of utxo_cache whose txid is a key of
\* cycled_tx_cache, u is an input of the cached tx cycled_tx_cache[utxo_cache[u]].
C19_DefenderSpendsUtxo ==
    \A u \in DOMAIN utxo_cache :
        utxo_cache[u] \in DOMAIN cycled_tx_cache =>
            u \in Range(cycled_tx_cache[utxo_cache[u]].vin)

\* An outpoint is protected by a cached tx other than the tx that replaced it.
C19_Witness ==
    /\ exc = "none"
    /\ \E u \in DOMAIN utxo_cache :
         /\ utxo_cache[u] \in DOMAIN cycled_tx_cache
         /\ \E t \in DOMAIN dummy_cache :
              t # utxo_cache[u] /\ u \in Range(dummy_cache[t].vin)

====
